---- MODULE Spec2Model ----
(***************************************************************************)
(* The draw-call benchmark of webgpu-frustum-culling: the start-up of      *)
(* main(), the uniform writer, the indirect draw descriptor, the frame     *)
(* submitter draw() and the requestAnimationFrame loop that times it.      *)
(*                                                                         *)
(* Two variants of the program are modelled side by side, chosen in Init:  *)
(*   "main.ts"   src/src/main.ts      (direct draws, blended average)      *)
(*   "part_002"  src/unnamed/part_002 (direct or indirect, windowed sum)   *)
(*                                                                         *)
(* Time is performance.now() in whole milliseconds.  Averages are exact    *)
(* rationals [kind, n, d] with the two IEEE specials a division by zero    *)
(* produces (NaN, Infinity); toFixed(4) is a rounding to 1/10000.          *)
(* Float32Array elements are [m, e], the float32 nearest to the number     *)
(* stored, of value m * 2^(e - 23).                                        *)
(***************************************************************************)
EXTENDS Integers, Sequences, FiniteSets, TLC

(* ------------------------------ bounds -------------------------------- *)
\* slider positions explored besides the initial one: 0..MaxDrawCount
MaxDrawCount == 1
\* the clock advances by TimeStep ms at a time, up to MaxTime
TimeStep == 500
MaxTime == 1500
\* frames counted in one timing window before the loop waits for the clock
MaxFrames == 3

(* -------------------------- program constants ------------------------- *)
InitialDrawCount == 100
SliderMin == 0
SliderMax == 1000000
WindowMs == 1000
BytesPerElement == 4
TopOffset == 0
BottomOffset == 16
IndirectOffset == 0
DefaultAlpha == 1

Variants == {"main.ts", "part_002"}
\* an omitted optional argument; a given one is a non-empty tuple
Undefined == << >>

(* --------------------------- JS number model -------------------------- *)
RECURSIVE GCD(_, _)
GCD(a, b) == IF b = 0 THEN a ELSE GCD(b, a % b)

Num(n, d) == LET g == GCD(n, d) IN [kind |-> "num", n |-> n \div g, d |-> d \div g]
NaN == [kind |-> "NaN", n |-> 0, d |-> 1]
Infinity == [kind |-> "Infinity", n |-> 0, d |-> 1]

\* x + t for a finite x and an integer t  (averageDrawTime + drawTime)
JSAdd(x, t) == IF x.kind = "num" THEN Num(x.n + t * x.d, x.d) ELSE x

\* x / k for k a non-negative integer, as IEEE division does it
JSDiv(x, k) ==
    IF x.kind = "NaN" THEN NaN
    ELSE IF x.kind = "Infinity" THEN Infinity
    ELSE IF k = 0 THEN (IF x.n = 0 THEN NaN ELSE Infinity)
    ELSE Num(x.n, x.d * k)

\* Number.prototype.toFixed(4): the nearest multiple of 1/10000, the larger
\* one on a tie, as a count of 1/10000; "NaN" and "Infinity" print as such
ToFixed4(x) ==
    IF x.kind # "num" THEN [kind |-> x.kind, e4 |-> 0]
    ELSE LET ip == x.n \div x.d
             rem == x.n % x.d
         IN [kind |-> "num",
             e4 |-> ip * 10000 + ((2 * rem * 10000 + x.d) \div (2 * x.d))]

(* ------------------------ Float32Array elements ----------------------- *)
\* scale n/d (0 < n <= d) into [1, 2): the exponent and the scaled numerator
RECURSIVE Normalise(_, _, _)
Normalise(x, d, e) == IF x < d THEN Normalise(2 * x, d, e - 1) ELSE <<x, e>>

\* 23 steps of long division: the mantissa bits after the leading one
RECURSIVE Mantissa(_, _, _, _)
Mantissa(m, r, d, bits) ==
    IF bits = 0 THEN <<m, r>>
    ELSE IF 2 * r >= d THEN Mantissa(2 * m + 1, 2 * r - d, d, bits - 1)
    ELSE Mantissa(2 * m, 2 * r, d, bits - 1)

\* the float32 nearest to n/d, ties to even
Fround(n, d) ==
    IF n = 0 THEN [m |-> 0, e |-> 0]
    ELSE LET s == Normalise(n, d, 0)
             q == Mantissa(1, s[1] - d, d, 23)
             up == 2 * q[2] > d \/ (2 * q[2] = d /\ q[1] % 2 = 1)
             m == IF up THEN q[1] + 1 ELSE q[1]
         IN IF m = 16777216 THEN [m |-> 8388608, e |-> s[2] + 1]
            ELSE [m |-> m, e |-> s[2]]

\* the numbers the program stores in a Float32Array, as fractions <<n, d>>:
\* colour channels k/255 of a picker and the alpha values 0 and 1
Fractions == { <<0, 1>>, <<1, 1>>, <<64, 255>>, <<128, 255>> }

\* the conversion a Float32Array applies to each element it is given
Float32 == [x \in Fractions |-> Fround(x[1], x[2])]

\* new Float32Array([...color, alpha])
Float32Array4(color, alpha) ==
    << Float32[color[1]], Float32[color[2]], Float32[color[3]],
       Float32[<<alpha, 1>>] >>

(* ------------------------------ colours ------------------------------- *)
\* a Color is three channels, each a fraction <<n, d>> in [0, 1]
White == << <<1, 1>>, <<1, 1>>, <<1, 1>> >>
Red == << <<1, 1>>, <<0, 1>>, <<0, 1>> >>
Green == << <<0, 1>>, <<1, 1>>, <<0, 1>> >>
Teal == << <<0, 1>>, <<128, 255>>, <<64, 255>> >>
\* the colours the two pickers hand to onChange
PickerColors == {Red, Teal}

(* --------------------------- Uniform Writer --------------------------- *)
\* device.createBuffer({size: 4*4 + 4*4}): zero-filled, two vec4f
UniformBufferSize == 4 * 4 + 4 * 4
ZeroBuffer(bytes) == [i \in 1..(bytes \div BytesPerElement) |-> Float32[<<0, 1>>]]

\* device.queue.writeBuffer(buffer, byteOffset, data)
WriteBuffer(buf, byteOffset, data) ==
    LET at == byteOffset \div BytesPerElement
    IN [i \in 1..Len(buf) |->
           IF i > at /\ i <= at + Len(data) THEN data[i - at] ELSE buf[i]]

setUniformsBottomAtZero(buf, top, bottom, alphaArg) ==
    LET alpha == IF alphaArg = Undefined THEN DefaultAlpha ELSE alphaArg[1]
    IN IF top # Undefined /\ bottom # Undefined
       THEN WriteBuffer(buf, TopOffset,
                        Float32Array4(top, alpha) \o Float32Array4(bottom, alpha))
       ELSE IF top # Undefined
       THEN WriteBuffer(buf, TopOffset, Float32Array4(top, alpha))
       ELSE IF bottom # Undefined
       THEN WriteBuffer(buf, TopOffset, Float32Array4(bottom, alpha))
       ELSE buf

\* setUniforms(topColor?, bottomColor?, alpha = 1): the buffer after the call
setUniforms(buf, top, bottom, alphaArg) ==
    LET alpha == IF alphaArg = Undefined THEN DefaultAlpha ELSE alphaArg[1]
    IN IF top # Undefined /\ bottom # Undefined
       THEN WriteBuffer(buf, TopOffset,
                        Float32Array4(top, alpha) \o Float32Array4(bottom, alpha))
       ELSE IF top # Undefined
       THEN WriteBuffer(buf, TopOffset, Float32Array4(top, alpha))
       ELSE IF bottom # Undefined
       THEN WriteBuffer(buf, BottomOffset, Float32Array4(bottom, alpha))
       ELSE buf

(* ---------------------- Indirect Draw Descriptor ---------------------- *)
\* new Uint32Array([3, 1, 0, 0]): vertex count, instance count, first
\* vertex, first instance
indirectBufferValues == <<3, 1, 0, 0>>

(* --------------------------- Frame Submitter -------------------------- *)
Cmd(op, args) == [op |-> op, args |-> args]

\* one iteration of the loop body; main.ts has no indirect path
DrawCommand(v, useInd) ==
    IF v = "part_002" /\ useInd
    THEN Cmd("drawIndirect", <<IndirectOffset>>)
    ELSE Cmd("draw", <<3, 1>>)

DrawLoopOffByOne(n, v, useInd) ==
    [k \in 1..(n + 1) |-> DrawCommand(v, useInd)]

\* for (let i = 0; i < drawCount; i++) { ... }: the commands of the
\* iterations i = 0 .. drawCount - 1, in order (the k-th is iteration k - 1)
DrawLoop(n, v, useInd) ==
    [k \in 1..n |-> DrawCommand(v, useInd)]

\* the command buffer encoder.finish() returns for one call of draw
Encode(n, v, useInd) ==
    << Cmd("beginRenderPass", << >>), Cmd("setBindGroup", <<0>>),
       Cmd("setPipeline", << >>) >>
    \o DrawLoop(n, v, useInd)
    \o << Cmd("end", << >>) >>

(* ------------------------------- state -------------------------------- *)
VARIABLES
    variant,            \* which source file runs
    now,                \* performance.now()
    mainPc,             \* where main() stands: start, context, running, returned
    gui,                \* the lil-gui panel: created?, its controllers
    topColor,           \* topColor.color
    bottomColor,        \* bottomColor.color
    uniformBuffer,      \* contents of uniformBuffer (<< >> before createBuffer)
    indirectBuffer,     \* contents of indirectBuffer (<< >> before createBuffer)
    start,              \* let start
    framesThisSecond,   \* let framesThisSecond
    averageDrawTime,    \* let averageDrawTime (main.ts)
    cumulativeDrawTime, \* let cumulativeDrawTime (part_002)
    drawCount,          \* drawCountObj.drawCount
    useIndirect,        \* useIndirectObj.useIndirect
    rafQueue,           \* callbacks requestAnimationFrame holds for the next frame
    pc,                 \* where the running rafCallback stands, or "idle"
    call,               \* the running call of draw: its arguments and timeBeginning
    drawTime,           \* const drawTime
    submitted,          \* command buffers queue.submit got from the current tick
    console,            \* the lines console.log printed
    frameLog,           \* history: drawCount and drawTime of the frames the
                        \* window counts (the last framesThisSecond frames)
    last,               \* history: the step taken last and the window it found
    uniformLog          \* history: the last call of setUniforms, the buffer it
                        \* found and, per slot, what the last call that
                        \* supplied the slot's colour stored

vars == << variant, now, mainPc, gui, topColor, bottomColor, uniformBuffer,
           indirectBuffer, start, framesThisSecond, averageDrawTime,
           cumulativeDrawTime, drawCount, useIndirect, rafQueue, pc, call,
           drawTime, submitted, console, frameLog, last, uniformLog >>

Colors == {White, Red, Green, Teal}
Alphas == {0, 1}
ZeroSlot == << Float32[<<0, 1>>], Float32[<<0, 1>>], Float32[<<0, 1>>], Float32[<<0, 1>>] >>
NoUniformCall == [top |-> Undefined, bottom |-> Undefined, alpha |-> Undefined,
                  before |-> << >>, slots |-> << ZeroSlot, ZeroSlot >>]

NoCall == [drawCount |-> 0, useIndirect |-> FALSE, timeBeginning |-> 0]

\* the accumulator of the variant running
Accumulated == IF variant = "main.ts" THEN averageDrawTime ELSE Num(cumulativeDrawTime, 1)

\* the step just taken, with the window and the log as it found them
Step(name) == [name |-> name, frames |-> framesThisSecond, elapsed |-> now - start,
               accumulated |-> Accumulated, lines |-> Len(console)]

LastN(s, n) == IF n >= Len(s) THEN s ELSE SubSeq(s, Len(s) - n + 1, Len(s))

Init ==
    /\ variant \in Variants
    /\ now = 0
    /\ mainPc = "start"
    /\ gui = [created |-> FALSE, controllers |-> {}]
    /\ topColor = White
    /\ bottomColor = White
    /\ uniformBuffer = << >>
    /\ indirectBuffer = << >>
    /\ start = 0
    /\ framesThisSecond = 0
    /\ averageDrawTime = Num(0, 1)
    /\ cumulativeDrawTime = 0
    /\ drawCount = 0
    /\ useIndirect = FALSE
    /\ rafQueue = 0
    /\ pc = "idle"
    /\ call = NoCall
    /\ drawTime = 0
    /\ submitted = << >>
    /\ console = << >>
    /\ frameLog = << >>
    /\ last = [name |-> "Init", frames |-> 0, elapsed |-> 0,
               accumulated |-> Num(0, 1), lines |-> 0]
    /\ uniformLog = NoUniformCall

(* ------------------------------- clock -------------------------------- *)
\* wall-clock time passes, between any two steps
AdvanceTime ==
    /\ now + TimeStep <= MaxTime
    /\ now' = now + TimeStep
    /\ last' = Step("AdvanceTime")
    /\ UNCHANGED uniformLog
    /\ UNCHANGED << variant, mainPc, gui, topColor, bottomColor, uniformBuffer,
                    indirectBuffer, start, framesThisSecond, averageDrawTime,
                    cumulativeDrawTime, drawCount, useIndirect, rafQueue, pc,
                    call, drawTime, submitted, console, frameLog >>

(* ------------------------------- main() ------------------------------- *)
\* new GUI(); await requestAdapter(); await adapter?.requestDevice();
\* if (!device) return
AcquireDevice ==
    /\ mainPc = "start"
    /\ gui' = [created |-> TRUE, controllers |-> {}]
    /\ \E adapter \in BOOLEAN, granted \in BOOLEAN :
          LET device == adapter /\ granted
          IN mainPc' = IF device THEN "context" ELSE "returned"
    /\ last' = Step("AcquireDevice")
    /\ UNCHANGED uniformLog
    /\ UNCHANGED << variant, now, topColor, bottomColor, uniformBuffer,
                    indirectBuffer, start, framesThisSecond, averageDrawTime,
                    cumulativeDrawTime, drawCount, useIndirect, rafQueue, pc,
                    call, drawTime, submitted, console, frameLog >>

\* document.querySelector("#canvas")?.getContext("webgpu"); if (!context) return
AcquireContext ==
    /\ mainPc = "context"
    /\ \E canvas \in BOOLEAN, webgpu \in BOOLEAN :
          LET context == canvas /\ webgpu
          IN mainPc' = IF context THEN "setup" ELSE "returned"
    /\ last' = Step("AcquireContext")
    /\ UNCHANGED uniformLog
    /\ UNCHANGED << variant, now, gui, topColor, bottomColor, uniformBuffer,
                    indirectBuffer, start, framesThisSecond, averageDrawTime,
                    cumulativeDrawTime, drawCount, useIndirect, rafQueue, pc,
                    call, drawTime, submitted, console, frameLog >>

\* the controllers main() adds to the panel
Controllers(v) ==
    {"topColor", "bottomColor", "drawCount"}
        \cup (IF v = "part_002" THEN {"useIndirect"} ELSE {})

\* requestAnimationFrame(rafCallback)
requestAnimationFrame(queue) == queue + 1

\* the rest of main(): configure, link, setup(), the controllers, the first
\* setUniforms, the timing window and the first requestAnimationFrame
RunSetup ==
    /\ mainPc = "setup"
    /\ mainPc' = "running"
    /\ indirectBuffer' = IF variant = "part_002"
                         THEN indirectBufferValues ELSE indirectBuffer
    /\ gui' = [gui EXCEPT !.controllers = Controllers(variant)]
    /\ uniformBuffer' = setUniforms(ZeroBuffer(UniformBufferSize),
                                    topColor, bottomColor, Undefined)
    /\ start' = now
    /\ framesThisSecond' = 0
    /\ averageDrawTime' = Num(0, 1)
    /\ cumulativeDrawTime' = 0
    /\ drawCount' = InitialDrawCount
    /\ useIndirect' = FALSE
    /\ rafQueue' = requestAnimationFrame(rafQueue)
    /\ last' = Step("RunSetup")
    /\ UNCHANGED uniformLog
    /\ UNCHANGED << variant, now, topColor, bottomColor, pc, call, drawTime,
                    submitted, console, frameLog >>

(* ---------------------------- UI callbacks ---------------------------- *)
\* a callback of the panel runs as a task of its own: main() has finished
\* and no rafCallback is on the stack
CanRun(controller) ==
    /\ mainPc = "running"
    /\ pc = "idle"
    /\ controller \in gui.controllers

\* the positions the drawCount slider is moved to: min(0) max(1_000_000) step(1)
SliderValues ==
    {v \in (SliderMin..MaxDrawCount) \cup {InitialDrawCount} :
        v >= SliderMin /\ v <= SliderMax}

\* .onChange((newValue) => setUniforms(newValue))
OnTopColorChange(c) ==
    /\ CanRun("topColor")
    /\ topColor' = c
    /\ uniformBuffer' = setUniforms(uniformBuffer, c, Undefined, Undefined)
    /\ last' = Step("OnTopColorChange")
    /\ UNCHANGED uniformLog
    /\ UNCHANGED << variant, now, mainPc, gui, bottomColor, indirectBuffer, start,
                    framesThisSecond, averageDrawTime, cumulativeDrawTime,
                    drawCount, useIndirect, rafQueue, pc, call, drawTime,
                    submitted, console, frameLog >>

\* .onChange((newValue) => setUniforms(undefined, newValue))
OnBottomColorChange(c) ==
    /\ CanRun("bottomColor")
    /\ bottomColor' = c
    /\ uniformBuffer' = setUniforms(uniformBuffer, Undefined, c, Undefined)
    /\ last' = Step("OnBottomColorChange")
    /\ UNCHANGED uniformLog
    /\ UNCHANGED << variant, now, mainPc, gui, topColor, indirectBuffer, start,
                    framesThisSecond, averageDrawTime, cumulativeDrawTime,
                    drawCount, useIndirect, rafQueue, pc, call, drawTime,
                    submitted, console, frameLog >>

OnDrawCountChangeKeepsFrames(v) ==
    /\ CanRun("drawCount")
    /\ drawCount' = v
    /\ start' = now
    /\ framesThisSecond' = framesThisSecond
    /\ averageDrawTime' = Num(0, 1)
    /\ cumulativeDrawTime' = 0
    /\ frameLog' = LastN(frameLog, framesThisSecond')
    /\ last' = Step("OnDrawCountChange")
    /\ UNCHANGED uniformLog
    /\ UNCHANGED << variant, now, mainPc, gui, topColor, bottomColor,
                    uniformBuffer, indirectBuffer, useIndirect, rafQueue, pc,
                    call, drawTime, submitted, console >>

OnDrawCountChangeKeepsTime(v) ==
    /\ CanRun("drawCount")
    /\ drawCount' = v
    /\ start' = now
    /\ framesThisSecond' = 0
    /\ UNCHANGED << averageDrawTime, cumulativeDrawTime >>
    /\ frameLog' = LastN(frameLog, framesThisSecond')
    /\ last' = Step("OnDrawCountChange")
    /\ UNCHANGED uniformLog
    /\ UNCHANGED << variant, now, mainPc, gui, topColor, bottomColor,
                    uniformBuffer, indirectBuffer, useIndirect, rafQueue, pc,
                    call, drawTime, submitted, console >>

\* the slider writes drawCountObj.drawCount, then
\* .onChange(() => { start = performance.now(); framesThisSecond = 0;
\*                   averageDrawTime | cumulativeDrawTime = 0 })
OnDrawCountChange(v) ==
    /\ CanRun("drawCount")
    /\ drawCount' = v
    /\ start' = now
    /\ framesThisSecond' = 0
    /\ averageDrawTime' = Num(0, 1)
    /\ cumulativeDrawTime' = 0
    /\ frameLog' = LastN(frameLog, framesThisSecond')
    /\ last' = Step("OnDrawCountChange")
    /\ UNCHANGED uniformLog
    /\ UNCHANGED << variant, now, mainPc, gui, topColor, bottomColor,
                    uniformBuffer, indirectBuffer, useIndirect, rafQueue, pc,
                    call, drawTime, submitted, console >>

ToggleUseIndirectResetsWindow ==
    /\ CanRun("useIndirect")
    /\ useIndirect' = ~useIndirect
    /\ start' = now
    /\ framesThisSecond' = 0
    /\ cumulativeDrawTime' = 0
    /\ frameLog' = << >>
    /\ last' = Step("ToggleUseIndirect")
    /\ UNCHANGED uniformLog
    /\ UNCHANGED << variant, now, mainPc, gui, topColor, bottomColor,
                    uniformBuffer, indirectBuffer, averageDrawTime, drawCount,
                    rafQueue, pc, call, drawTime, submitted, console >>

\* gui.add(useIndirectObj, "useIndirect"): the checkbox writes the field,
\* no onChange is registered
ToggleUseIndirect ==
    /\ CanRun("useIndirect")
    /\ useIndirect' = ~useIndirect
    /\ last' = Step("ToggleUseIndirect")
    /\ UNCHANGED uniformLog
    /\ UNCHANGED << variant, now, mainPc, gui, topColor, bottomColor,
                    uniformBuffer, indirectBuffer, start, framesThisSecond,
                    averageDrawTime, cumulativeDrawTime, drawCount, rafQueue,
                    pc, call, drawTime, submitted, console, frameLog >>

(* ----------------------- rafCallback, step by step -------------------- *)
\* the average the report prints: the blended averageDrawTime (main.ts),
\* cumulativeDrawTime / framesThisSecond (part_002)
ReportedAverage ==
    IF variant = "main.ts" THEN averageDrawTime
    ELSE JSDiv(Num(cumulativeDrawTime, 1), framesThisSecond)

\* the console.log line: drawCount, average.toFixed(4),
\* (average / drawCount).toFixed(4)
ReportLine(average, n) ==
    [drawCount |-> n, perFrame |-> ToFixed4(average),
     perCall |-> ToFixed4(JSDiv(average, n))]

\* the browser runs the scheduled callback;
\* if (performance.now() - start >= 1000) console.log(...)
TickCheck ==
    /\ mainPc = "running"
    /\ pc = "idle"
    /\ rafQueue > 0
    /\ framesThisSecond < MaxFrames \/ now - start >= WindowMs
    /\ rafQueue' = rafQueue - 1
    /\ IF now - start >= WindowMs
       THEN /\ console' = Append(console, ReportLine(ReportedAverage, drawCount))
            /\ pc' = "reset"
       ELSE /\ console' = console
            /\ pc' = "draw"
    /\ last' = Step("TickCheck")
    /\ UNCHANGED uniformLog
    /\ UNCHANGED << variant, now, mainPc, gui, topColor, bottomColor,
                    uniformBuffer, indirectBuffer, start, framesThisSecond,
                    averageDrawTime, cumulativeDrawTime, drawCount, useIndirect,
                    call, drawTime, submitted, frameLog >>

\* start = performance.now(); framesThisSecond = 0;
\* cumulativeDrawTime = 0 (part_002 only: main.ts keeps averageDrawTime)
TickReset ==
    /\ pc = "reset"
    /\ start' = now
    /\ framesThisSecond' = 0
    /\ cumulativeDrawTime' = 0
    /\ averageDrawTime' = averageDrawTime
    /\ frameLog' = LastN(frameLog, framesThisSecond')
    /\ pc' = "draw"
    /\ last' = Step("TickReset")
    /\ UNCHANGED uniformLog
    /\ UNCHANGED << variant, now, mainPc, gui, topColor, bottomColor,
                    uniformBuffer, indirectBuffer, drawCount, useIndirect,
                    rafQueue, call, drawTime, submitted, console >>

\* draw(..., drawCountObj.drawCount, indirectBuffer, useIndirectObj.useIndirect);
\* const timeBeginning = performance.now()
DrawBegin ==
    /\ pc = "draw"
    /\ call' = [drawCount |-> drawCount, useIndirect |-> useIndirect,
                timeBeginning |-> now]
    /\ pc' = "encode"
    /\ last' = Step("DrawBegin")
    /\ UNCHANGED uniformLog
    /\ UNCHANGED << variant, now, mainPc, gui, topColor, bottomColor,
                    uniformBuffer, indirectBuffer, start, framesThisSecond,
                    averageDrawTime, cumulativeDrawTime, drawCount, useIndirect,
                    rafQueue, drawTime, submitted, console, frameLog >>

\* the pass is recorded and submitted;
\* return performance.now() - timeBeginning
DrawEnd ==
    /\ pc = "encode"
    /\ submitted' = Append(submitted,
                           Encode(call.drawCount, variant, call.useIndirect))
    /\ drawTime' = now - call.timeBeginning
    /\ pc' = "update"
    /\ last' = Step("DrawEnd")
    /\ UNCHANGED uniformLog
    /\ UNCHANGED << variant, now, mainPc, gui, topColor, bottomColor,
                    uniformBuffer, indirectBuffer, start, framesThisSecond,
                    averageDrawTime, cumulativeDrawTime, drawCount, useIndirect,
                    rafQueue, call, console, frameLog >>

TickUpdateNoReschedule ==
    /\ pc = "update"
    /\ framesThisSecond' = framesThisSecond + 1
    /\ IF variant = "main.ts"
       THEN /\ averageDrawTime' =
                   JSDiv(JSAdd(averageDrawTime, drawTime), framesThisSecond')
            /\ cumulativeDrawTime' = cumulativeDrawTime
       ELSE /\ cumulativeDrawTime' = cumulativeDrawTime + drawTime
            /\ averageDrawTime' = averageDrawTime
    /\ frameLog' = LastN(Append(frameLog, [drawCount |-> call.drawCount,
                                           drawTime |-> drawTime]),
                         framesThisSecond')
    /\ rafQueue' = rafQueue
    /\ pc' = "idle"
    /\ call' = NoCall
    /\ drawTime' = 0
    /\ submitted' = << >>
    /\ last' = Step("TickUpdate")
    /\ UNCHANGED uniformLog
    /\ UNCHANGED << variant, now, mainPc, gui, topColor, bottomColor,
                    uniformBuffer, indirectBuffer, start, drawCount, useIndirect,
                    console >>

\* framesThisSecond += 1;
\* averageDrawTime = (averageDrawTime + drawTime) / framesThisSecond  (main.ts)
\* cumulativeDrawTime += drawTime                                     (part_002)
\* requestAnimationFrame(rafCallback); the callback returns
TickUpdate ==
    /\ pc = "update"
    /\ framesThisSecond' = framesThisSecond + 1
    /\ IF variant = "main.ts"
       THEN /\ averageDrawTime' =
                   JSDiv(JSAdd(averageDrawTime, drawTime), framesThisSecond')
            /\ cumulativeDrawTime' = cumulativeDrawTime
       ELSE /\ cumulativeDrawTime' = cumulativeDrawTime + drawTime
            /\ averageDrawTime' = averageDrawTime
    /\ frameLog' = LastN(Append(frameLog, [drawCount |-> call.drawCount,
                                           drawTime |-> drawTime]),
                         framesThisSecond')
    /\ rafQueue' = requestAnimationFrame(rafQueue)
    /\ pc' = "idle"
    /\ call' = NoCall
    /\ drawTime' = 0
    /\ submitted' = << >>
    /\ last' = Step("TickUpdate")
    /\ UNCHANGED uniformLog
    /\ UNCHANGED << variant, now, mainPc, gui, topColor, bottomColor,
                    uniformBuffer, indirectBuffer, start, drawCount, useIndirect,
                    console >>

Next ==
    \/ AdvanceTime
    \/ AcquireDevice
    \/ AcquireContext
    \/ RunSetup
    \/ \E c \in PickerColors : OnTopColorChange(c)
    \/ \E c \in PickerColors : OnBottomColorChange(c)
    \/ \E v \in SliderValues : OnDrawCountChange(v)
    \/ ToggleUseIndirect
    \/ TickCheck
    \/ TickReset
    \/ DrawBegin
    \/ DrawEnd
    \/ TickUpdate

Spec == Init /\ [][Next]_vars

(* ------------------- the Uniform Writer on its own -------------------- *)
\* setUniforms called with every combination of given and omitted
\* arguments, on the buffer setup() created
InitUniforms ==
    /\ variant \in Variants
    /\ now = 0
    /\ mainPc = "setup"
    /\ gui = [created |-> TRUE, controllers |-> {}]
    /\ topColor = White
    /\ bottomColor = White
    /\ uniformBuffer = ZeroBuffer(UniformBufferSize)
    /\ indirectBuffer = << >>
    /\ start = 0
    /\ framesThisSecond = 0
    /\ averageDrawTime = Num(0, 1)
    /\ cumulativeDrawTime = 0
    /\ drawCount = 0
    /\ useIndirect = FALSE
    /\ rafQueue = 0
    /\ pc = "idle"
    /\ call = NoCall
    /\ drawTime = 0
    /\ submitted = << >>
    /\ console = << >>
    /\ frameLog = << >>
    /\ last = [name |-> "Init", frames |-> 0, elapsed |-> 0,
               accumulated |-> Num(0, 1), lines |-> 0]
    /\ uniformLog = NoUniformCall

SetUniformsCall(top, bottom, alphaArg) ==
    /\ uniformBuffer' = setUniforms(uniformBuffer, top, bottom, alphaArg)
    /\ LET alpha == IF alphaArg = Undefined THEN DefaultAlpha ELSE alphaArg[1]
       IN uniformLog' =
            [top |-> top, bottom |-> bottom, alpha |-> alphaArg,
             before |-> uniformBuffer,
             slots |-> << IF top # Undefined THEN Float32Array4(top, alpha)
                          ELSE uniformLog.slots[1],
                          IF bottom # Undefined THEN Float32Array4(bottom, alpha)
                          ELSE uniformLog.slots[2] >>]
    /\ UNCHANGED << variant, now, mainPc, gui, topColor, bottomColor,
                    indirectBuffer, start, framesThisSecond, averageDrawTime,
                    cumulativeDrawTime, drawCount, useIndirect, rafQueue, pc,
                    call, drawTime, submitted, console, frameLog, last >>

NextUniforms ==
    \E top \in Colors \cup {Undefined}, bottom \in Colors \cup {Undefined},
       alphaArg \in {Undefined} \cup {<<a>> : a \in Alphas} :
        SetUniformsCall(top, bottom, alphaArg)

SpecUniforms == InitUniforms /\ [][NextUniforms]_vars

(* ============================== claims ================================ *)
DrawOps == {"draw", "drawIndirect"}
UICallbacks == {"OnTopColorChange", "OnBottomColorChange", "OnDrawCountChange",
                "ToggleUseIndirect"}
Positions(cb, ops) == {i \in DOMAIN cb : cb[i].op \in ops}

RECURSIVE SumTimes(_)
SumTimes(frames) ==
    IF frames = << >> THEN 0 ELSE Head(frames).drawTime + SumTimes(Tail(frames))

\* C1: one call of draw submits exactly one command buffer, which begins
\* exactly one render pass, holds exactly drawCount draw commands, all of
\* them between the begin and the end of the pass, and ends the pass; in
\* part_002 each command is drawIndirect at offset 0 when useIndirect is
\* true and draw(3, 1) otherwise, in main.ts always draw(3, 1).
C1_DrawIssuesDrawCountCommands ==
    pc = "update" =>
        /\ Len(submitted) = 1
        /\ LET cb == submitted[1]
               draws == Positions(cb, DrawOps)
           IN /\ Positions(cb, {"beginRenderPass"}) = {1}
              /\ Positions(cb, {"end"}) = {Len(cb)}
              /\ Cardinality(draws) = drawCount
              /\ \A i \in draws :
                    /\ 1 < i /\ i < Len(cb)
                    /\ cb[i] = IF variant = "part_002" /\ useIndirect
                               THEN Cmd("drawIndirect", <<0>>)
                               ELSE Cmd("draw", <<3, 1>>)

\* C1 witness: an indirect frame of InitialDrawCount draws has been submitted
C1_Witness ==
    /\ pc = "update"
    /\ variant = "part_002"
    /\ useIndirect
    /\ drawCount = InitialDrawCount
    /\ Len(submitted) = 1
    /\ Cardinality(Positions(submitted[1], {"drawIndirect"})) = InitialDrawCount

\* C2 (as claimed): whenever a tick has just printed a report over a window
\* of at least one frame, with drawCount at least 1, in either variant, the
\* per-frame figure printed is the sum of the draw times of the frames of
\* the window divided by their number, and the per-call figure is that
\* average divided by drawCount.
C2_ReportIsWindowAverage ==
    pc = "reset" /\ Len(frameLog) >= 1 /\ drawCount >= 1 =>
        console[Len(console)] =
            ReportLine(JSDiv(Num(SumTimes(frameLog), 1), Len(frameLog)), drawCount)

\* C3 (as claimed): the step of a reporting tick that resets the window
\* leaves, in either variant, start at the current time, the frame count at
\* 0 and the accumulated submission time at 0.
C3_ReportResetsWholeWindow ==
    last.name = "TickReset" =>
        /\ start = now
        /\ framesThisSecond = 0
        /\ Accumulated = Num(0, 1)

\* C4: right after a DrawCount change the frame count and the accumulated
\* time are 0, start is the current time, no frame is counted in the window
\* any more, and no line was printed by the change.
C4_DrawCountChangeResetsWindow ==
    last.name = "OnDrawCountChange" =>
        /\ framesThisSecond = 0
        /\ Accumulated = Num(0, 1)
        /\ start = now
        /\ frameLog = << >>
        /\ Len(console) = last.lines

\* C4 witness: a change that arrives 1000 ms or more after the window
\* started, with frames and time accumulated, and discards them
C4_Witness ==
    /\ last.name = "OnDrawCountChange"
    /\ last.elapsed >= WindowMs
    /\ last.frames > 0
    /\ last.accumulated.n > 0
    /\ framesThisSecond = 0

\* C6: in part_002 the indirect buffer holds [3, 1, 0, 0] from setup on; a
\* toggle of useIndirect changes nothing but the flag (not the indirect
\* buffer, the uniform buffer, drawCount, the timing window or the log); no
\* step after setup writes the indirect buffer, no step of a tick changes
\* drawCount, and the uniform buffer changes only in a caller of setUniforms.
C6_IndirectDescriptorFixed ==
    /\ [](variant = "part_002" /\ mainPc = "running"
              => indirectBuffer = <<3, 1, 0, 0>>)
    /\ [][ /\ last'.name = "ToggleUseIndirect" =>
                UNCHANGED << indirectBuffer, uniformBuffer, drawCount, start,
                             framesThisSecond, cumulativeDrawTime,
                             averageDrawTime, console, frameLog, rafQueue >>
           /\ mainPc = "running" => indirectBuffer' = indirectBuffer
           /\ pc # "idle" \/ pc' # "idle" => drawCount' = drawCount
           /\ uniformBuffer' # uniformBuffer =>
                last'.name \in {"RunSetup", "OnTopColorChange",
                                "OnBottomColorChange"} ]_vars

\* C6 witness: useIndirect switched on in the middle of a window, after the
\* colours and drawCount were changed
C6_Witness ==
    /\ last.name = "ToggleUseIndirect"
    /\ useIndirect
    /\ framesThisSecond > 0
    /\ drawCount # InitialDrawCount
    /\ topColor # White
    /\ indirectBuffer = <<3, 1, 0, 0>>

\* C7: once setup has succeeded, exactly one rafCallback is either running
\* or scheduled (never none, never two), before that none is; and a UI
\* callback has only ever run with no rafCallback in progress.
C7_OneTickAtATime ==
    /\ mainPc = "running" => rafQueue + (IF pc = "idle" THEN 0 ELSE 1) = 1
    /\ mainPc # "running" => rafQueue = 0 /\ pc = "idle"
    /\ last.name \in UICallbacks => pc = "idle" /\ rafQueue = 1

\* C7 witness: a tick has completed and rescheduled itself at least twice
C7_Witness ==
    /\ last.name = "TickUpdate"
    /\ framesThisSecond >= 2
    /\ pc = "idle"
    /\ rafQueue = 1

\* C8 (as claimed): when main() has returned early, no control panel was
\* created, no buffer exists or was written, nothing is scheduled, nothing
\* was drawn and nothing was printed.
C8_FailureLeavesNothing ==
    mainPc = "returned" =>
        /\ ~gui.created
        /\ gui.controllers = {}
        /\ uniformBuffer = << >>
        /\ indirectBuffer = << >>
        /\ rafQueue = 0
        /\ pc = "idle"
        /\ submitted = << >>
        /\ console = << >>

\* C9 (as claimed): whenever a tick has just printed a report, drawCount is
\* at least 1 and, in part_002, the frame count of the window is at least 1.
C9_DivisorsNonZero ==
    pc = "reset" =>
        /\ drawCount >= 1
        /\ variant = "part_002" => framesThisSecond >= 1

\* C10: the frames counted in the window are exactly framesThisSecond
\* frames, each submitted with the current drawCount; and a report just
\* printed names that drawCount.
C10_WindowFramesUseCurrentDrawCount ==
    /\ Len(frameLog) = framesThisSecond
    /\ \A i \in DOMAIN frameLog : frameLog[i].drawCount = drawCount
    /\ pc = "reset" => console[Len(console)].drawCount = drawCount

\* C10 witness: a report over a window of frames submitted after a change
\* of drawCount
C10_Witness ==
    /\ pc = "reset"
    /\ framesThisSecond >= 2
    /\ drawCount # InitialDrawCount
    /\ drawCount > 0

\* C5: after a call of setUniforms the buffer is 32 bytes; every element
\* outside the slots of the colours given is what it was before the call;
\* the slot of a colour given holds that colour and the call's alpha as
\* float32; and each slot holds what the last call that supplied its colour
\* stored (zeros if none did).
C5_SetUniformsWritesGivenSlots ==
    uniformLog.before # << >> =>
        LET alpha == IF uniformLog.alpha = Undefined
                     THEN DefaultAlpha ELSE uniformLog.alpha[1]
            hasTop == uniformLog.top # Undefined
            hasBottom == uniformLog.bottom # Undefined
            \* the bytes element i occupies lie in [4(i-1), 4i)
            inTopSlot(i) == 4 * i <= 16
        IN /\ Len(uniformBuffer) * 4 = 32
           /\ \A i \in 1..Len(uniformBuffer) :
                 (IF inTopSlot(i) THEN ~hasTop ELSE ~hasBottom)
                     => uniformBuffer[i] = uniformLog.before[i]
           /\ hasTop => SubSeq(uniformBuffer, 1, 4)
                            = Float32Array4(uniformLog.top, alpha)
           /\ hasBottom => SubSeq(uniformBuffer, 5, 8)
                               = Float32Array4(uniformLog.bottom, alpha)
           /\ SubSeq(uniformBuffer, 1, 4) = uniformLog.slots[1]
           /\ SubSeq(uniformBuffer, 5, 8) = uniformLog.slots[2]

\* C5 witness: top = [1,0,0] written alone, then bottom = [0,1,0] written
\* alone: the buffer is [1,0,0,1, 0,1,0,1]
C5_Witness ==
    LET one == Float32[<<1, 1>>]
        zero == Float32[<<0, 1>>]
    IN /\ uniformLog.top = Undefined
       /\ uniformLog.bottom = Green
       /\ uniformLog.before = << one, zero, zero, one, zero, zero, zero, zero >>
       /\ uniformBuffer = << one, zero, zero, one, zero, one, zero, one >>

====
